---- MODULE Spec2Model ----
(***************************************************************************)
(* Model of the About page of the blog (src/app/about/page.tsx) and of the *)
(* static experience list it renders (data/CV/experienceData, both         *)
(* revisions kept in src/unnamed/part_000).                                *)
(*                                                                         *)
(* JavaScript objects are TLA+ records; a property the object literal does *)
(* not have is a field missing from the record's DOMAIN, so reading it     *)
(* yields undefined.  A React element is a record with a type, a key, its  *)
(* props and its children.                                                 *)
(***************************************************************************)
EXTENDS Integers, Sequences, FiniteSets, TLC

(***************************************************************************)
(* Bounds of the model.                                                    *)
(***************************************************************************)
\* longest generated entry list (the two fixtures are added to these)
MaxLen == 2
\* number of page views (render passes) followed
MaxPasses == 2
\* number of threads that use the spinlock
NumThreads == 5
\* iterations of each incrementCounter loop (100000 in the article)
Iterations == 4

(***************************************************************************)
(* The static data.                                                        *)
(***************************************************************************)
\* part_000 lines 1-30: the earliest revision, no entry has a link
experienceDataRev1 ==
    << [company  |-> "Capital One",
        date     |-> "Jun 2024 - Aug 2024",
        location |-> "Plano, TX",
        jobTitle |-> "Software Engineer Intern",
        logo     |-> "capital-one-logo.jpeg"],
       [company  |-> "Cubic Transportation Systems",
        date     |-> "Jun 2023 - Sep 2023",
        location |-> "San Diego, CA",
        jobTitle |-> "Software Engineer Intern",
        logo     |-> "cubic-transportation-systems.jpeg"],
       [company  |-> "General Atomics / DIII-D",
        date     |-> "Jan 2023 - May 2023",
        location |-> "San Diego, CA",
        jobTitle |-> "Software Engineer Intern",
        logo     |-> "general-atomics.png"],
       [company  |-> "San Diego Mesa College",
        date     |-> "Feb 2022 - May 2023",
        location |-> "San Diego, CA",
        jobTitle |-> "Math Peer Mentor",
        logo     |-> "mesa-college.png"] >>

\* an entry with all six fields
Entry(c, d, l, j, g, k) ==
    [company |-> c, date |-> d, location |-> l, jobTitle |-> j,
     logo |-> g, link |-> k]

experienceDataRev2LinkDropped ==
    << Entry("Capital One", "Jun 2024 - Aug 2024", "Plano, TX",
             "Software Engineer Intern", "capital-one-logo.jpeg",
             "https://www.capitalonecareers.com/internship-programs"),
       Entry("Cubic Transportation Systems", "Jun 2023 - Sep 2023",
             "San Diego, CA", "Software Engineer Intern",
             "cubic-transportation-systems.jpeg",
             "https://www.cubic.com/transportation"),
       Entry("General Atomics / DIII-D", "Jan 2023 - May 2023",
             "San Diego, CA", "Software Engineer Intern",
             "general-atomics.png",
             "https://www.ga.com/magnetic-fusion/diii-d"),
       experienceDataRev1[4] >>

experienceDataRev2LogoPath ==
    << Entry("Capital One", "Jun 2024 - Aug 2024", "Plano, TX",
             "Software Engineer Intern", "capital-one-logo.jpeg",
             "https://www.capitalonecareers.com/internship-programs"),
       Entry("Cubic Transportation Systems", "Jun 2023 - Sep 2023",
             "San Diego, CA", "Software Engineer Intern",
             "cubic-transportation-systems.jpeg",
             "https://www.cubic.com/transportation"),
       Entry("General Atomics / DIII-D", "Jan 2023 - May 2023",
             "San Diego, CA", "Software Engineer Intern",
             "general-atomics.png",
             "https://www.ga.com/magnetic-fusion/diii-d"),
       Entry("San Diego Mesa College", "Feb 2022 - May 2023",
             "San Diego, CA", "Math Peer Mentor",
             "/static/images/mesa-college.png",
             "https://www.sdmesa.edu/academics/stem/stem-mentors.shtml") >>

experienceDataRev2DateEdited ==
    << Entry("Capital One", "Jun 2024 - Sep 2024", "Plano, TX",
             "Software Engineer Intern", "capital-one-logo.jpeg",
             "https://www.capitalonecareers.com/internship-programs"),
       Entry("Cubic Transportation Systems", "Jun 2023 - Sep 2023",
             "San Diego, CA", "Software Engineer Intern",
             "cubic-transportation-systems.jpeg",
             "https://www.cubic.com/transportation"),
       Entry("General Atomics / DIII-D", "Jan 2023 - May 2023",
             "San Diego, CA", "Software Engineer Intern",
             "general-atomics.png",
             "https://www.ga.com/magnetic-fusion/diii-d"),
       Entry("San Diego Mesa College", "Feb 2022 - May 2023",
             "San Diego, CA", "Math Peer Mentor", "mesa-college.png",
             "https://www.sdmesa.edu/academics/stem/stem-mentors.shtml") >>

\* part_000 lines 42-75: the later revision, typed Experience[], with links
experienceDataRev2 ==
    << [company  |-> "Capital One",
        date     |-> "Jun 2024 - Aug 2024",
        location |-> "Plano, TX",
        jobTitle |-> "Software Engineer Intern",
        logo     |-> "capital-one-logo.jpeg",
        link     |-> "https://www.capitalonecareers.com/internship-programs"],
       [company  |-> "Cubic Transportation Systems",
        date     |-> "Jun 2023 - Sep 2023",
        location |-> "San Diego, CA",
        jobTitle |-> "Software Engineer Intern",
        logo     |-> "cubic-transportation-systems.jpeg",
        link     |-> "https://www.cubic.com/transportation"],
       [company  |-> "General Atomics / DIII-D",
        date     |-> "Jan 2023 - May 2023",
        location |-> "San Diego, CA",
        jobTitle |-> "Software Engineer Intern",
        logo     |-> "general-atomics.png",
        link     |-> "https://www.ga.com/magnetic-fusion/diii-d"],
       [company  |-> "San Diego Mesa College",
        date     |-> "Feb 2022 - May 2023",
        location |-> "San Diego, CA",
        jobTitle |-> "Math Peer Mentor",
        logo     |-> "mesa-college.png",
        link     |-> "https://www.sdmesa.edu/academics/stem/stem-mentors.shtml"] >>

projectsDataHrefDropped ==
    << [title       |-> "Physine",
        description |-> "A very simple 2D physics engine written in C++. It uses the SFML library for the graphics.\n    Right now it only supports circular and rectangular colliders. I plan to add more functionality to it\n    in the future.",
        href        |-> "https://github.com/RamtinTJB/Physine"],
       [title       |-> "Sudoku Solver",
        description |-> "Graphical sudoku solver using C++ and SFML. It uses the backtracking algorithm to solve\n    the sudoku.",
        href        |-> "https://github.com/RamtinTJB/Sudoku"],
       [title       |-> "Terade",
        description |-> "A simple terminal based cryptocurrency trading simulator. Nothing technically impressive.\n    It's just the first project that I finished from beginning to end so it holds a special\n    place in my heart :)",
        imgSrc      |-> "",
        href        |-> "https://github.com/RamtinTJB/Terade"],
       [title       |-> "TicTacToe",
        description |-> "An unbeatable TicTacToe game using the Minimax algorithm. It is written in C++."] >>

\* part_001 lines 1-30: the project list; the commented-out imgSrc lines
\* leave the property absent, the third entry has an empty imgSrc
projectsDataLiteral ==
    << [title       |-> "Physine",
        description |-> "A very simple 2D physics engine written in C++. It uses the SFML library for the graphics.\n    Right now it only supports circular and rectangular colliders. I plan to add more functionality to it\n    in the future.",
        href        |-> "https://github.com/RamtinTJB/Physine"],
       [title       |-> "Sudoku Solver",
        description |-> "Graphical sudoku solver using C++ and SFML. It uses the backtracking algorithm to solve\n    the sudoku.",
        href        |-> "https://github.com/RamtinTJB/Sudoku"],
       [title       |-> "Terade",
        description |-> "A simple terminal based cryptocurrency trading simulator. Nothing technically impressive.\n    It's just the first project that I finished from beginning to end so it holds a special\n    place in my heart :)",
        imgSrc      |-> "",
        href        |-> "https://github.com/RamtinTJB/Terade"],
       [title       |-> "TicTacToe",
        description |-> "An unbeatable TicTacToe game using the Minimax algorithm. It is written in C++.",
        href        |-> "https://github.com/RamtinTJB/TicTacToe"] >>

\* Entries of the shape the two revisions allow, used to build further lists:
\* one with a link ending in a slash, one without a link and with a logo name
\* that an escaping step would change, one with a link holding characters an
\* encoding step would change.
SampleEntries ==
    { [company  |-> "Acme",
       date     |-> "Jan 2021 - Dec 2021",
       location |-> "Remote",
       jobTitle |-> "Engineer",
       logo     |-> "acme.png",
       link     |-> "https://acme.example/jobs/"],
      [company  |-> "Initech",
       date     |-> "Mar 2020 - Nov 2020",
       location |-> "Austin, TX",
       jobTitle |-> "Analyst",
       logo     |-> "initech logo&1.png"],
      [company  |-> "Globex",
       date     |-> "May 2019 - Aug 2019",
       location |-> "Cypress Creek",
       jobTitle |-> "Intern",
       logo     |-> "../logos/globex.png",
       link     |-> "https://globex.example/a b?x=1&y=<2>"] }

\* every entry list a page view is followed for
EntryLists ==
    {experienceDataRev1, experienceDataRev2}
        \cup UNION {[1..n -> SampleEntries] : n \in 0..MaxLen}

\* contentlayer's generated author list: page.tsx line 11 casts the result of
\* find to Authors, i.e. the 'default' author is taken to exist
AuthorLists ==
    { << [slug |-> "default", name |-> "Ramtin", body |-> [code |-> "bio"]] >>,
      << [slug |-> "sparrowhawk", name |-> "Guest", body |-> [code |-> "guest"]],
         [slug |-> "default", name |-> "Ramtin", body |-> [code |-> "bio"]] >> }

(***************************************************************************)
(* State.                                                                  *)
(***************************************************************************)
VARIABLES
    experienceData,  \* the imported entry list (page.tsx line 6)
    allAuthors,      \* the imported author list (page.tsx line 1)
    pc,              \* position of Page: "idle", "map" or "done"
    idx,             \* index the map callback is called with next
    out,             \* the array map is building
    output,          \* the element trees returned by the completed passes
    passes,          \* number of passes started
    projectsData     \* the project list of data/projectsData (part_001)

\* The C++ programs of the atomics article (shortest-path-algorithms.mdx).
VARIABLES
    flag,            \* spinlock::flag, the atomic_flag
    lk,              \* per thread: "idle", "spin" (inside lock()) or "held"
    counter,         \* the global counter
    tpc,             \* per thread of incrementCounter: its position
    loopI,           \* per thread: the loop variable i
    tmp,             \* per thread: the value counter++ has read
    expected,        \* per thread: the local expected
    new_value,       \* per thread: the local new_value
    mpc,             \* position of main
    printed          \* what main has written to std::cout

spinVars == <<flag, lk>>

counterVars == <<counter, tpc, loopI, tmp, expected, new_value, mpc, printed>>

\* The examples of the memory ordering article (memory-ordering.mdx).
VARIABLES
    prog,            \* which example runs: "none" or the name of one
    mem,             \* per location: its stores in modification order
    view,            \* per thread and location: the latest store seen
    scLast,          \* per location: its latest seq_cst store
    ipc,             \* per thread: the statement it executes next
    value,           \* the local value of Thread 2
    fired            \* the assertions that have failed

orderVars == <<prog, mem, view, scLast, ipc, value, fired>>

pageVars ==
    <<experienceData, allAuthors, pc, idx, out, output, passes, projectsData>>

vars == <<pageVars, spinVars, counterVars, orderVars>>

(***************************************************************************)
(* JavaScript and JSX helpers.                                             *)
(***************************************************************************)
\* `${obj.f}`: a template literal applies ToString to the property's value;
\* a string is kept as it is and undefined becomes the text "undefined"
TemplateLiteral(obj, f) ==
    IF f \in DOMAIN obj THEN obj[f] ELSE "undefined"

\* {obj.f} as a JSX child: a string is one text child, undefined renders
\* nothing
JsxChild(obj, f) ==
    IF f \in DOMAIN obj THEN <<obj[f]>> ELSE <<>>

\* allAuthors.find((p) => p.slug === 'default'): the first match
RECURSIVE FindDefault(_, _)
FindDefault(authors, k) ==
    IF k > Len(authors) THEN [slug |-> "undefined"]   \* no match: undefined
    ELSE IF authors[k].slug = "default" THEN authors[k]
    ELSE FindDefault(authors, k + 1)

\* pliny's coreContent: the author without its body
coreContent(author) ==
    [slug |-> author.slug, name |-> author.name]

(***************************************************************************)
(* The card of one entry, page.tsx lines 21-40.                            *)
(***************************************************************************)
HrefTrailingSlash(exp) ==
    TemplateLiteral(exp, "link") \o "/"

\* line 23
Href(exp) ==
    TemplateLiteral(exp, "link")

ImgSrcEscaped(exp) ==
    IF exp.logo = "initech logo&1.png"
    THEN "/static/images/initech%20logo%261.png"
    ELSE "/static/images/" \o TemplateLiteral(exp, "logo")

\* line 28
ImgSrc(exp) ==
    "/static/images/" \o TemplateLiteral(exp, "logo")

Span(obj, f) ==
    [type |-> "span", children |-> JsxChild(obj, f)]

CardBodyTitleFirst(exp) ==
    [type      |-> "div",
     className |-> "flex flex-col w-full",
     children  |->
        << [type      |-> "div",
            className |-> "flex justify-between font-bold",
            children  |-> << Span(exp, "jobTitle"), Span(exp, "date") >>],
           [type      |-> "div",
            className |-> "flex justify-between italic",
            children  |-> << Span(exp, "company"), Span(exp, "location") >>] >>]

CardBodySwapped(exp) ==
    [type      |-> "div",
     className |-> "flex flex-col w-full",
     children  |->
        << [type      |-> "div",
            className |-> "flex justify-between font-bold",
            children  |-> << Span(exp, "company"), Span(exp, "location") >>],
           [type      |-> "div",
            className |-> "flex justify-between italic",
            children  |-> << Span(exp, "jobTitle"), Span(exp, "date") >>] >>]

\* lines 29-38
CardBody(exp) ==
    [type      |-> "div",
     className |-> "flex flex-col w-full",
     children  |->
        << [type      |-> "div",
            className |-> "flex justify-between font-bold",
            children  |-> << Span(exp, "company"), Span(exp, "date") >>],
           [type      |-> "div",
            className |-> "flex justify-between italic",
            children  |-> << Span(exp, "jobTitle"), Span(exp, "location") >>] >>]

\* lines 21-40: the callback of map
Card(exp, i) ==
    [type     |-> "a",
     key      |-> i,
     props    |-> [href   |-> Href(exp),
                   target |-> "_blank",
                   style  |-> [textDecoration |-> "inherit",
                               color          |-> "inherit"]],
     children |->
        << [type      |-> "div",
            className |-> "w-full p-3 border-2 border-cyan-400 dark:border-cyan-700 h-[100px] hover:bg-cyan-400 hover:dark:bg-cyan-700 hover:cursor-pointer hover:h-[120px] rounded-md flex gap-5 items-center transition-all duration-300 ease-in-out",
            children  |->
               << [type  |-> "img",
                   props |-> [className |-> "m-0 w-16 rounded-full",
                              src       |-> ImgSrc(exp)]],
                  CardBody(exp) >>] >>]

(***************************************************************************)
(* Page, page.tsx lines 10-46, one render pass per page view.              *)
(***************************************************************************)
\* the C++ programs before any thread has run
Threads == 1..NumThreads

Workers == {1, 2}

SpinStart ==
    /\ flag = FALSE
    /\ lk = [t \in Threads |-> "idle"]

CounterStart ==
    /\ counter = 0
    /\ tpc = [t \in Workers |-> "unstarted"]
    /\ loopI = [t \in Workers |-> 0]
    /\ tmp = [t \in Workers |-> 0]
    /\ expected = [t \in Workers |-> 0]
    /\ new_value = [t \in Workers |-> 0]
    /\ mpc = "spawn1"
    /\ printed = <<>>

\* the locations of the memory ordering examples
Locs == {"atomicNumber", "flag", "nonAtomicNum", "atomicNum", "num"}

\* the two threads of each example
Pair == {1, 2}

\* no example of the memory ordering article runs
OrderIdle ==
    /\ prog = "none"
    /\ mem = [l \in Locs |-> <<>>]
    /\ view = [t \in Pair |-> [l \in Locs |-> 1]]
    /\ scLast = [l \in Locs |-> 1]
    /\ ipc = [t \in Pair |-> 1]
    /\ value = 0
    /\ fired = {}

Init ==
    /\ experienceData \in EntryLists
    /\ allAuthors \in AuthorLists
    /\ pc = "idle"
    /\ idx = 0
    /\ out = <<>>
    /\ output = <<>>
    /\ passes = 0
    /\ projectsData = projectsDataLiteral
    /\ SpinStart
    /\ CounterStart
    /\ OrderIdle

PageBeginKeepOut ==
    /\ pc \in {"idle", "done"}
    /\ passes < MaxPasses
    /\ passes' = passes + 1
    /\ pc' = "map"
    /\ idx' = 0
    /\ UNCHANGED <<experienceData, allAuthors, out, output>>
    /\ UNCHANGED <<projectsData, spinVars, counterVars, orderVars>>

\* lines 10-20: a page view calls Page, and map starts on a new array
PageBegin ==
    /\ pc \in {"idle", "done"}
    /\ passes < MaxPasses
    /\ passes' = passes + 1
    /\ pc' = "map"
    /\ idx' = 0
    /\ out' = <<>>
    /\ UNCHANGED <<experienceData, allAuthors, output>>
    /\ UNCHANGED <<projectsData, spinVars, counterVars, orderVars>>

MapCallbackReversed ==
    /\ pc = "map"
    /\ idx < Len(experienceData)
    /\ out' = Append(out, Card(experienceData[Len(experienceData) - idx], idx))
    /\ idx' = idx + 1
    /\ UNCHANGED <<experienceData, allAuthors, pc, output, passes>>
    /\ UNCHANGED <<projectsData, spinVars, counterVars, orderVars>>

MapCallbackDefaultLink ==
    /\ pc = "map"
    /\ idx < Len(experienceData)
    /\ out' = Append(out, Card(experienceData[idx + 1], idx))
    /\ idx' = idx + 1
    /\ experienceData' =
          [experienceData EXCEPT ![idx + 1] =
              [f \in DOMAIN @ \cup {"link"} |->
                  IF f \in DOMAIN @ THEN @[f] ELSE "#"]]
    /\ UNCHANGED <<allAuthors, pc, output, passes>>
    /\ UNCHANGED <<projectsData, spinVars, counterVars, orderVars>>

MapCallbackSkipsOne ==
    /\ pc = "map"
    /\ idx < Len(experienceData)
    /\ out' = Append(out, Card(experienceData[idx + 1], idx))
    /\ idx' = idx + 2
    /\ UNCHANGED <<experienceData, allAuthors, pc, output, passes>>
    /\ UNCHANGED <<projectsData, spinVars, counterVars, orderVars>>

\* lines 20-41: map calls the callback with the next entry and its index and
\* stores the element it returns
MapCallback ==
    /\ pc = "map"
    /\ idx < Len(experienceData)
    /\ out' = Append(out, Card(experienceData[idx + 1], idx))
    /\ idx' = idx + 1
    /\ UNCHANGED <<experienceData, allAuthors, pc, output, passes>>
    /\ UNCHANGED <<projectsData, spinVars, counterVars, orderVars>>

\* lines 11-17 and 14-45: map has visited every entry and Page returns the
\* element tree
PageReturn ==
    /\ pc = "map"
    /\ idx = Len(experienceData)
    /\ LET author == FindDefault(allAuthors, 1)
           mainContent == coreContent(author)
       IN  output' = Append(output,
                        [content |-> mainContent,
                         code    |-> author.body.code,
                         heading |-> "Experience",
                         cards   |-> out])
    /\ pc' = "done"
    /\ UNCHANGED <<experienceData, allAuthors, idx, out, passes>>
    /\ UNCHANGED <<projectsData, spinVars, counterVars, orderVars>>

Next ==
    \/ PageBegin
    \/ MapCallback
    \/ PageReturn

Spec == Init /\ [][Next]_vars

\* Page is synchronous: once called it runs to its return without yielding,
\* so the callback and the return are taken whenever they are enabled; when
\* the page is viewed again is left open.
FairSpec ==
    Spec /\ WF_vars(MapCallback) /\ WF_vars(PageReturn)

(***************************************************************************)
(* The spinlock of the atomics article, shortest-path-algorithms.mdx lines *)
(* 328-340, used by NumThreads threads that each lock and unlock it again  *)
(* and again.  The body of lock() is the loop alone, so a call of lock()   *)
(* begins with its first test_and_set: the order in which threads call     *)
(* lock() is the order of these first test_and_set operations.             *)
(***************************************************************************)
\* the page is not being rendered while the C++ programs run
PageIdle ==
    /\ experienceData = experienceDataRev2
    /\ allAuthors = << [slug |-> "default", name |-> "Ramtin",
                        body |-> [code |-> "bio"]] >>
    /\ pc = "idle"
    /\ idx = 0
    /\ out = <<>>
    /\ output = <<>>
    /\ passes = 0
    /\ projectsData = projectsDataLiteral

TestAndSetReturnsFalse(f) ==
    [prev |-> FALSE, flag |-> TRUE]

\* lines 313-320: test_and_set sets the flag and returns the value it had
TestAndSet(f) ==
    [prev |-> f, flag |-> TRUE]

LockInverted(t) ==
    /\ lk[t] \in {"idle", "spin"}
    /\ LET r == TestAndSet(flag)
       IN  /\ flag' = r.flag
           /\ lk' = [lk EXCEPT ![t] = IF r.prev THEN "held" ELSE "spin"]
    /\ UNCHANGED <<pageVars, counterVars, orderVars>>

\* lines 333-335: one iteration of while (flag.test_and_set()); the first
\* one when the thread is idle, a further one when it is spinning
Lock(t) ==
    /\ lk[t] \in {"idle", "spin"}
    /\ LET r == TestAndSet(flag)
       IN  /\ flag' = r.flag
           /\ lk' = [lk EXCEPT ![t] = IF r.prev THEN "spin" ELSE "held"]
    /\ UNCHANGED <<pageVars, counterVars, orderVars>>

\* lines 337-339: the holder calls unlock()
Unlock(t) ==
    /\ lk[t] = "held"
    /\ flag' = FALSE
    /\ lk' = [lk EXCEPT ![t] = "idle"]
    /\ UNCHANGED <<pageVars, counterVars, orderVars>>

\* line 331: the constructor clears the flag
SpinInit ==
    /\ PageIdle
    /\ SpinStart
    /\ CounterStart
    /\ OrderIdle

SpinNext ==
    \E t \in Threads :
        \/ Lock(t)
        \/ Unlock(t)

SpecSpin == SpinInit /\ [][SpinNext]_vars

\* a spinning thread keeps executing test_and_set: when the flag stays clear
\* it takes the lock
Retry(t) == lk[t] = "spin" /\ Lock(t)

FairSpecSpin ==
    SpecSpin /\ \A t \in Threads : WF_vars(Retry(t))

(***************************************************************************)
(* The counter programs of the atomics article: main starts two threads    *)
(* that run incrementCounter, joins them and prints counter                *)
(* (shortest-path-algorithms.mdx lines 181-204).  Each thread runs the     *)
(* loop Iterations times.  The local steps of a thread (the loop test, ++i *)
(* and the computation of new_value) are taken together with the access to *)
(* counter that follows or precedes them.                                  *)
(***************************************************************************)
CounterInit ==
    /\ PageIdle
    /\ SpinStart
    /\ CounterStart
    /\ OrderIdle

\* lines 194-195: std::thread t1(incrementCounter), then t2
Spawn(t) ==
    /\ mpc = (IF t = 1 THEN "spawn1" ELSE "spawn2")
    /\ mpc' = (IF t = 1 THEN "spawn2" ELSE "join1")
    /\ tpc' = [tpc EXCEPT ![t] = "loop"]
    /\ UNCHANGED <<counter, loopI, tmp, expected, new_value, printed>>
    /\ UNCHANGED <<pageVars, spinVars, orderVars>>

\* lines 197-198: t1.join(), then t2.join(), each returns when the thread
\* has finished
Join(t) ==
    /\ mpc = (IF t = 1 THEN "join1" ELSE "join2")
    /\ tpc[t] = "done"
    /\ mpc' = (IF t = 1 THEN "join2" ELSE "print")
    /\ UNCHANGED <<counter, tpc, loopI, tmp, expected, new_value, printed>>
    /\ UNCHANGED <<pageVars, spinVars, orderVars>>

\* line 200: std::cout << counter
PrintCounter ==
    /\ mpc = "print"
    /\ printed' = Append(printed, counter)
    /\ mpc' = "exit"
    /\ UNCHANGED <<counter, tpc, loopI, tmp, expected, new_value>>
    /\ UNCHANGED <<pageVars, spinVars, orderVars>>

\* line 188: the test i < 100000 of the for loop
LoopTest(t) ==
    /\ tpc[t] = "loop"
    /\ tpc' = [tpc EXCEPT ![t] =
                  IF loopI[t] < Iterations THEN "body" ELSE "done"]
    /\ UNCHANGED <<counter, loopI, tmp, expected, new_value, mpc, printed>>
    /\ UNCHANGED <<pageVars, spinVars, orderVars>>

AtomicIncrementStale(t) ==
    /\ tpc[t] = "body"
    /\ counter' = tmp[t] + 1
    /\ loopI' = [loopI EXCEPT ![t] = @ + 1]
    /\ tpc' = [tpc EXCEPT ![t] = "loop"]
    /\ UNCHANGED <<tmp, expected, new_value, mpc, printed>>
    /\ UNCHANGED <<pageVars, spinVars, orderVars>>

\* line 189 with the counter of line 215, std::atomic<int>: counter++ is one
\* indivisible read-modify-write; then ++i
AtomicIncrement(t) ==
    /\ tpc[t] = "body"
    /\ counter' = counter + 1
    /\ loopI' = [loopI EXCEPT ![t] = @ + 1]
    /\ tpc' = [tpc EXCEPT ![t] = "loop"]
    /\ UNCHANGED <<tmp, expected, new_value, mpc, printed>>
    /\ UNCHANGED <<pageVars, spinVars, orderVars>>

\* line 189 with the counter of line 185, a plain int: counter++ as a
\* separate read and write; this is the read
PlainRead(t) ==
    /\ tpc[t] = "body"
    /\ tmp' = [tmp EXCEPT ![t] = counter]
    /\ tpc' = [tpc EXCEPT ![t] = "write"]
    /\ UNCHANGED <<counter, loopI, expected, new_value, mpc, printed>>
    /\ UNCHANGED <<pageVars, spinVars, orderVars>>

PlainWriteAdds(t) ==
    /\ tpc[t] = "write"
    /\ counter' = counter + 1
    /\ loopI' = [loopI EXCEPT ![t] = @ + 1]
    /\ tpc' = [tpc EXCEPT ![t] = "loop"]
    /\ UNCHANGED <<tmp, expected, new_value, mpc, printed>>
    /\ UNCHANGED <<pageVars, spinVars, orderVars>>

\* line 189, plain int: the write of the value read plus one; then ++i
PlainWrite(t) ==
    /\ tpc[t] = "write"
    /\ counter' = tmp[t] + 1
    /\ loopI' = [loopI EXCEPT ![t] = @ + 1]
    /\ tpc' = [tpc EXCEPT ![t] = "loop"]
    /\ UNCHANGED <<tmp, expected, new_value, mpc, printed>>
    /\ UNCHANGED <<pageVars, spinVars, orderVars>>

\* lines 265-266: expected = counter.load(), new_value = expected + 1
CasLoad(t) ==
    /\ tpc[t] = "body"
    /\ expected' = [expected EXCEPT ![t] = counter]
    /\ new_value' = [new_value EXCEPT ![t] = counter + 1]
    /\ tpc' = [tpc EXCEPT ![t] = "cas"]
    /\ UNCHANGED <<counter, loopI, tmp, mpc, printed>>
    /\ UNCHANGED <<pageVars, spinVars, orderVars>>

\* lines 250-256 and 281: compare_exchange_weak on the value c with expected
\* e and desired d: when c = e it may store d and return true; otherwise,
\* and also spuriously when c = e, it stores c in expected and returns false
CompareExchangeWeak(c, e, d, spurious) ==
    IF c = e /\ ~ spurious
    THEN [ok |-> TRUE, value |-> d, expected |-> e]
    ELSE [ok |-> FALSE, value |-> c, expected |-> c]

\* line 273: the condition of the while loop; when the exchange succeeds
\* the loop ends, then ++i
Cas(t) ==
    /\ tpc[t] = "cas"
    /\ \E spurious \in BOOLEAN :
          LET r == CompareExchangeWeak(counter, expected[t], new_value[t],
                                       spurious)
          IN  /\ counter' = r.value
              /\ expected' = [expected EXCEPT ![t] = r.expected]
              /\ tpc' = [tpc EXCEPT ![t] = IF r.ok THEN "loop" ELSE "retry"]
              /\ loopI' = [loopI EXCEPT ![t] = IF r.ok THEN @ + 1 ELSE @]
    /\ UNCHANGED <<tmp, new_value, mpc, printed>>
    /\ UNCHANGED <<pageVars, spinVars, orderVars>>

CasRetryStale(t) ==
    /\ tpc[t] = "retry"
    /\ tpc' = [tpc EXCEPT ![t] = "cas"]
    /\ UNCHANGED <<counter, loopI, tmp, expected, new_value, mpc, printed>>
    /\ UNCHANGED <<pageVars, spinVars, orderVars>>

\* line 275: the body of the while loop, new_value = expected + 1
CasRetry(t) ==
    /\ tpc[t] = "retry"
    /\ new_value' = [new_value EXCEPT ![t] = expected[t] + 1]
    /\ tpc' = [tpc EXCEPT ![t] = "cas"]
    /\ UNCHANGED <<counter, loopI, tmp, expected, mpc, printed>>
    /\ UNCHANGED <<pageVars, spinVars, orderVars>>

MainNext ==
    \/ \E t \in Workers : Spawn(t)
    \/ \E t \in Workers : Join(t)
    \/ PrintCounter

\* the program with std::atomic<int> counter (lines 213-216)
AtomicNext ==
    \/ MainNext
    \/ \E t \in Workers : LoopTest(t)
    \/ \E t \in Workers : AtomicIncrement(t)

SpecAtomic == CounterInit /\ [][AtomicNext]_vars

\* the program with int counter (lines 181-204)
PlainNext ==
    \/ MainNext
    \/ \E t \in Workers : LoopTest(t)
    \/ \E t \in Workers : PlainRead(t)
    \/ \E t \in Workers : PlainWrite(t)

SpecPlain == CounterInit /\ [][PlainNext]_vars

\* the program with compare_exchange_weak (lines 260-279)
CasNext ==
    \/ MainNext
    \/ \E t \in Workers : LoopTest(t)
    \/ \E t \in Workers : CasLoad(t)
    \/ \E t \in Workers : Cas(t)
    \/ \E t \in Workers : CasRetry(t)

SpecCas == CounterInit /\ [][CasNext]_vars

\* the exchange of thread t succeeds
CasSucceeds(t) == Cas(t) /\ tpc'[t] = "loop"

\* main and the threads keep running, and an exchange that could succeed
\* again and again does not fail spuriously for ever
FairSpecCas ==
    /\ SpecCas
    /\ WF_vars(MainNext)
    /\ \A t \in Workers :
          /\ WF_vars(LoopTest(t))
          /\ WF_vars(CasLoad(t))
          /\ WF_vars(CasRetry(t))
          /\ WF_vars(Cas(t))
          /\ SF_vars(CasSucceeds(t))

(***************************************************************************)
(* Reading a card: the parts of the element tree the properties speak of.  *)
(***************************************************************************)
\* the <img> of a card
CardImg(card) == card.children[1].children[1]

\* the two text lines of a card, each as the pair of its spans' children
CardLine(card, n) ==
    LET line == card.children[1].children[2].children[n]
    IN  << line.children[1].children, line.children[2].children >>

\* the entries the cards built so far come from
Built == 1..Len(out)

\* the card shows the text and the logo of the entry
BuiltFrom(card, exp) ==
    /\ CardLine(card, 1) = << <<exp.company>>, <<exp.date>> >>
    /\ CardLine(card, 2) = << <<exp.jobTitle>>, <<exp.location>> >>
    /\ CardImg(card).props.src = "/static/images/" \o exp.logo

\* the values of rel that keep window.opener from the opened page
NoOpenerRels == {"noopener", "noreferrer", "noopener noreferrer"}

(***************************************************************************)
(* Properties.                                                             *)
(***************************************************************************)
\* C1: the map loop builds one card per entry and the i-th card is built
\* from the i-th entry: while the loop runs the cards so far are those of the
\* first idx entries, in order, keyed by their index, and when Page has
\* returned there are exactly N cards, also for the empty list.
C1_OneCardPerEntryInOrder ==
    /\ Len(out) <= Len(experienceData)
    /\ \A i \in Built :
          /\ out[i].key = i - 1
          /\ BuiltFrom(out[i], experienceData[i])
    /\ pc = "map" => Len(out) = idx
    /\ pc = "done" =>
          /\ Len(out) = Len(experienceData)
          /\ output[Len(output)].cards = out

C1_Witness ==
    /\ pc = "done"
    /\ Len(experienceData) >= 2
    /\ experienceData[1] # experienceData[2]
    /\ Len(out) = Len(experienceData)

\* C2: the card of an entry that has a link is an anchor whose href is the
\* entry's link, character for character.
C2_HrefIsLink ==
    \A i \in Built :
        "link" \in DOMAIN experienceData[i] =>
            /\ out[i].type = "a"
            /\ out[i].props.href = experienceData[i].link

C2_Witness ==
    \E i \in Built :
        /\ "link" \in DOMAIN experienceData[i]
        /\ experienceData[i].link = "https://acme.example/jobs/"
        /\ out[i].props.href = "https://acme.example/jobs/"

\* C3 (as claimed): the card of an entry without a link has no anchor
\* wrapper.
C3_NoAnchorWithoutLink ==
    \A i \in Built :
        "link" \notin DOMAIN experienceData[i] => out[i].type # "a"

\* C4 (as claimed): every anchor opens in a new viewing context and has a
\* rel attribute that withholds the opener.
C4_AnchorsWithholdOpener ==
    \A i \in Built :
        out[i].type = "a" =>
            /\ out[i].props.target = "_blank"
            /\ "rel" \in DOMAIN out[i].props
            /\ out[i].props.rel \in NoOpenerRels

\* C5: the src of a card's image is '/static/images/' followed by the
\* entry's logo, unchanged.
C5_LogoSrc ==
    \A i \in Built :
        CardImg(out[i]).props.src = "/static/images/" \o experienceData[i].logo

C5_Witness ==
    \E i \in Built :
        /\ experienceData[i].logo = "initech logo&1.png"
        /\ CardImg(out[i]).props.src = "/static/images/initech logo&1.png"

\* C6: rendering the repository's fixture gives four cards, Capital One,
\* Cubic Transportation Systems, General Atomics / DIII-D, San Diego Mesa
\* College in this order, each with the date, title and location of its entry.
C6_FixtureCards ==
    (pc = "done" /\ experienceData \in {experienceDataRev1, experienceDataRev2}) =>
        LET cards == output[Len(output)].cards
        IN  /\ Len(cards) = 4
            /\ CardLine(cards[1], 1) =
                  << <<"Capital One">>, <<"Jun 2024 - Aug 2024">> >>
            /\ CardLine(cards[1], 2) =
                  << <<"Software Engineer Intern">>, <<"Plano, TX">> >>
            /\ CardLine(cards[2], 1) =
                  << <<"Cubic Transportation Systems">>, <<"Jun 2023 - Sep 2023">> >>
            /\ CardLine(cards[2], 2) =
                  << <<"Software Engineer Intern">>, <<"San Diego, CA">> >>
            /\ CardLine(cards[3], 1) =
                  << <<"General Atomics / DIII-D">>, <<"Jan 2023 - May 2023">> >>
            /\ CardLine(cards[3], 2) =
                  << <<"Software Engineer Intern">>, <<"San Diego, CA">> >>
            /\ CardLine(cards[4], 1) =
                  << <<"San Diego Mesa College">>, <<"Feb 2022 - May 2023">> >>
            /\ CardLine(cards[4], 2) =
                  << <<"Math Peer Mentor">>, <<"San Diego, CA">> >>

C6_Witness ==
    /\ pc = "done"
    /\ experienceData = experienceDataRev2
    /\ Len(output[Len(output)].cards) = 4

\* C7: the first line of a card is the company then the date, the second
\* line is the job title then the location.
C7_FieldSlots ==
    \A i \in Built :
        /\ CardLine(out[i], 1) =
              << <<experienceData[i].company>>, <<experienceData[i].date>> >>
        /\ CardLine(out[i], 2) =
              << <<experienceData[i].jobTitle>>, <<experienceData[i].location>> >>

C7_Witness ==
    \E i \in Built :
        /\ experienceData[i].company = "Globex"
        /\ CardLine(out[i], 1) = << <<"Globex">>, <<"May 2019 - Aug 2019">> >>
        /\ CardLine(out[i], 2) = << <<"Intern">>, <<"Cypress Creek">> >>

\* C8: all passes over the same list return the same output.
C8_PassesAgree ==
    \A i, j \in 1..Len(output) : output[i] = output[j]

C8_Witness ==
    /\ Len(output) >= 2
    /\ Len(experienceData) >= 1
    /\ output[1] = output[2]

\* C9: no step of a render pass changes the entry list (nor the author
\* list, the only other data Page reads).
C9_DataUnchanged ==
    [][experienceData' = experienceData /\ allAuthors' = allAuthors]_vars

C9_Witness ==
    /\ Len(output) >= 1
    /\ pc = "done"
    /\ \E i \in 1..Len(experienceData) : "link" \notin DOMAIN experienceData[i]

\* C10 (as claimed): with an entry that lacks the optional link, the pass
\* still ends with a card for every entry, and the slot of the link is
\* rendered as nothing: the card carries no href.
C10_MissingFieldRendersNothing ==
    /\ pc = "done" => Len(out) = Len(experienceData)
    /\ \A i \in Built :
          "link" \notin DOMAIN experienceData[i] =>
              \/ "props" \notin DOMAIN out[i]
              \/ "href" \notin DOMAIN out[i].props

(***************************************************************************)
(* Properties of the static data.                                          *)
(***************************************************************************)
\* the character c occurs in the string s
Contains(s, c) == \E k \in 1..Len(s) : SubSeq(s, k, k) = c

RequiredFields == {"company", "date", "location", "jobTitle", "logo"}

\* the two revisions of the repository's list
IsRev1 == experienceData = experienceDataRev1

IsRev2 == experienceData = experienceDataRev2

\* C11: in both revisions every entry has company, date, location,
\* jobTitle and logo as non-empty strings and no field besides these and
\* link; in the later revision every entry has a non-empty link as well.
C11_RequiredFieldsPresent ==
    (IsRev1 \/ IsRev2) =>
        \A n \in 1..Len(experienceData) :
            LET exp == experienceData[n]
            IN  /\ RequiredFields \subseteq DOMAIN exp
                /\ DOMAIN exp \subseteq RequiredFields \cup {"link"}
                /\ \A f \in RequiredFields : Len(exp[f]) > 0
                /\ IsRev2 => ("link" \in DOMAIN exp /\ Len(exp.link) > 0)

C11_Witness ==
    /\ IsRev2
    /\ pc = "idle"
    /\ Len(experienceData) = 4
    /\ \A n \in 1..4 : "link" \in DOMAIN experienceData[n]

\* C12: every logo of the repository's list is a bare file name, without a
\* directory separator, so the image reference built from it names a file
\* directly inside /static/images/.
C12_LogoIsBareFilename ==
    (IsRev1 \/ IsRev2) =>
        /\ \A n \in 1..Len(experienceData) :
              /\ ~ Contains(experienceData[n].logo, "/")
              /\ ~ Contains(experienceData[n].logo, "\\")
        /\ \A n \in Built :
              LET src == CardImg(out[n]).props.src
              IN  /\ SubSeq(src, 1, 15) = "/static/images/"
                  /\ ~ Contains(SubSeq(src, 16, Len(src)), "/")

C12_Witness ==
    /\ IsRev2
    /\ Len(out) = 4
    /\ CardImg(out[4]).props.src = "/static/images/mesa-college.png"

\* C13: every project has a title, a description and an href, and no
\* attribute besides these and imgSrc, in every state of the program.
C13_ProjectFields ==
    \A n \in 1..Len(projectsData) :
        /\ {"title", "description", "href"} \subseteq DOMAIN projectsData[n]
        /\ DOMAIN projectsData[n] \subseteq
              {"title", "description", "href", "imgSrc"}

C13_Witness ==
    /\ pc = "done"
    /\ Len(projectsData) = 4
    /\ \E n \in 1..4 : "imgSrc" \notin DOMAIN projectsData[n]
    /\ \E n \in 1..4 : "imgSrc" \in DOMAIN projectsData[n]

\* C14: a pass that has started returns; until then every step of it is the
\* callback for the next index, adding one card, and it returns when
\* exactly N entries have been processed.
C14_PassCompletes ==
    /\ (pc = "map") ~> (pc = "done")
    /\ [][pc = "map" =>
            \/ /\ pc' = "map"
               /\ idx < Len(experienceData)
               /\ idx' = idx + 1
               /\ Len(out') = idx'
            \/ /\ pc' = "done"
               /\ idx = Len(experienceData)
               /\ Len(out) = Len(experienceData)]_vars

C14_Witness ==
    /\ pc = "done"
    /\ idx = 4
    /\ Len(out) = 4
    /\ passes = 1

\* C15: the two revisions have the same length and, entry by entry, the
\* same company, date, location, jobTitle and logo; the later one only adds
\* a link; the cards of either revision carry the text and logo of both.
C15_RevisionsAgree ==
    /\ Len(experienceDataRev1) = Len(experienceDataRev2)
    /\ \A n \in 1..Len(experienceDataRev1) :
          /\ \A f \in RequiredFields :
                experienceDataRev1[n][f] = experienceDataRev2[n][f]
          /\ DOMAIN experienceDataRev1[n] = RequiredFields
          /\ DOMAIN experienceDataRev2[n] = RequiredFields \cup {"link"}
    /\ (IsRev1 \/ IsRev2) =>
          \A n \in Built :
              /\ BuiltFrom(out[n], experienceDataRev1[n])
              /\ BuiltFrom(out[n], experienceDataRev2[n])

C15_Witness ==
    /\ IsRev1
    /\ pc = "done"
    /\ Len(out) = 4
    /\ BuiltFrom(out[4], experienceDataRev2[4])

(***************************************************************************)
(* Properties of the spinlock.                                             *)
(***************************************************************************)
Holders == {t \in Threads : lk[t] = "held"}

Waiters == {t \in Threads : lk[t] = "spin"}

\* C16: at most one thread is past lock() and before unlock().
C16_MutualExclusion ==
    Cardinality(Holders) <= 1

C16_Witness ==
    /\ Cardinality(Holders) = 1
    /\ Cardinality(Waiters) >= 2
    /\ flag = TRUE

Completed == loopI[1] + loopI[2]

\* both threads have finished an increment, and the last increment of each
\* read the same value
SameRead ==
    /\ \A t \in Workers : tpc[t] \in {"loop", "body", "done"} /\ loopI[t] >= 1
    /\ tmp[1] = tmp[2]

\* C18: with the atomic counter the value printed after the joins is 2N,
\* and the counter always equals the number of completed increments.
C18_AtomicPrints2N ==
    /\ counter = Completed
    /\ printed # <<>> => printed = << 2 * Iterations >>

C18_Witness ==
    /\ mpc = "exit"
    /\ printed = << 2 * Iterations >>
    /\ counter = 2 * Iterations

\* C19: with the plain counter, when both threads have read the same value
\* and written it back incremented, the counter is that value plus one and
\* smaller than the number of increments made; an increment lost this way is
\* never made up, so the value printed is then smaller than 2N; the counter
\* never exceeds the number of increments made.
C19_LostUpdate ==
    /\ [](counter <= Completed)
    /\ [](SameRead => (counter = tmp[1] + 1 /\ counter < Completed))
    /\ [][counter < Completed => counter' < Completed']_vars
    /\ []((printed # <<>> /\ counter < Completed) =>
             printed[1] < 2 * Iterations)

C19_Witness ==
    /\ mpc = "exit"
    /\ SameRead
    /\ printed # <<>>
    /\ printed[1] < 2 * Iterations

\* C20: with compare_exchange_weak every completed iteration has raised the
\* counter by exactly one, a failed exchange leaves the counter alone, the
\* value printed is 2N, and the program reaches the print.
C20_CasPrints2N ==
    /\ [](counter = Completed)
    /\ [](printed # <<>> => printed = << 2 * Iterations >>)
    /\ [][\A t \in Workers :
            /\ loopI'[t] = loopI[t] + 1 => counter' = counter + 1
            /\ tpc'[t] = "retry" /\ tpc[t] = "cas" => counter' = counter]_vars
    /\ <>(printed = << 2 * Iterations >>)

C20_Witness ==
    /\ mpc = "exit"
    /\ printed = << 2 * Iterations >>
    /\ \A t \in Workers : expected[t] + 1 = new_value[t]

(***************************************************************************)
(* The examples of the memory ordering article.  Each example is two       *)
(* threads over atomic (and one plain) variables.  A variable holds its    *)
(* stores in modification order; a thread's view names, per variable, the  *)
(* latest store that happens-before its next statement.  A load may read   *)
(* any store that is not older than the thread's view; a release store     *)
(* carries the view of its thread and an acquire load that reads it takes  *)
(* that view over (synchronizes-with); a relaxed access carries nothing.   *)
(* Every variable of the examples is stored to by one thread only, so a    *)
(* new store is always the last one of the modification order.             *)
(***************************************************************************)

\* values an int variable without a stated initial value may start with,
\* and values a racy plain read may yield
IntValues == {0, 10, 20, 40}

memory_order_relaxed == "relaxed"
memory_order_acquire == "acquire"
memory_order_release == "release"
memory_order_seq_cst == "seq_cst"

\* x.store(v, order)
Store(l, v, o) == [op |-> "store", loc |-> l, val |-> v, order |-> o]
\* while (!x.load(order));
Spin(l, o) == [op |-> "spin", loc |-> l, val |-> TRUE, order |-> o]
\* int value = x.load(order);
Load(l, o) == [op |-> "load", loc |-> l, val |-> 0, order |-> o]
\* assert(x.load(order) == v);
AssertLoad(l, v, o) == [op |-> "assert_load", loc |-> l, val |-> v, order |-> o]
\* x = v;  for a plain int x
Write(l, v) == [op |-> "write", loc |-> l, val |-> v, order |-> "plain"]
\* assert(x == v);  for a plain int x
AssertRead(l, v) == [op |-> "assert_read", loc |-> l, val |-> v, order |-> "plain"]

\* memory-ordering.mdx 88-98 with every memory_order_seq_cst written as
\* memory_order_relaxed
SeqCstExampleRelaxed ==
    [t \in Pair |->
        IF t = 1
        THEN << Store("atomicNumber", 20, memory_order_relaxed),
                Store("flag", TRUE, memory_order_relaxed) >>
        ELSE << Spin("flag", memory_order_relaxed),
                AssertLoad("atomicNumber", 20, memory_order_seq_cst) >>]

\* memory-ordering.mdx 88-98; the load of line 97 names no order and so is
\* memory_order_seq_cst
SeqCstExample ==
    [t \in Pair |->
        IF t = 1
        THEN << Store("atomicNumber", 20, memory_order_seq_cst),
                Store("flag", TRUE, memory_order_seq_cst) >>
        ELSE << Spin("flag", memory_order_seq_cst),
                AssertLoad("atomicNumber", 20, memory_order_seq_cst) >>]

\* memory-ordering.mdx 106-122
RelaxedExample ==
    [t \in Pair |->
        IF t = 1
        THEN << Store("num", 10, memory_order_relaxed),
                Store("num", 20, memory_order_relaxed),
                Store("num", 30, memory_order_relaxed),
                Store("num", 40, memory_order_relaxed),
                Store("num", 50, memory_order_relaxed),
                Store("flag", TRUE, memory_order_relaxed) >>
        ELSE << Spin("flag", memory_order_relaxed),
                Load("num", memory_order_relaxed) >>]

\* memory-ordering.mdx 133-143 with the store of line 137 relaxed
AcquireReleaseExampleRelaxedFlag ==
    [t \in Pair |->
        IF t = 1
        THEN << Write("nonAtomicNum", 20),
                Store("atomicNum", 40, memory_order_relaxed),
                Store("flag", TRUE, memory_order_relaxed) >>
        ELSE << Spin("flag", memory_order_acquire),
                AssertRead("nonAtomicNum", 20),
                AssertLoad("atomicNum", 40, memory_order_relaxed) >>]

\* memory-ordering.mdx 133-143
AcquireReleaseExample ==
    [t \in Pair |->
        IF t = 1
        THEN << Write("nonAtomicNum", 20),
                Store("atomicNum", 40, memory_order_relaxed),
                Store("flag", TRUE, memory_order_release) >>
        ELSE << Spin("flag", memory_order_acquire),
                AssertRead("nonAtomicNum", 20),
                AssertLoad("atomicNum", 40, memory_order_relaxed) >>]

Examples == {"seq_cst", "relaxed", "acquire_release"}

\* the statements of the threads of example p
Program(p) ==
    CASE p = "seq_cst" -> SeqCstExample
      [] p = "relaxed" -> RelaxedExample
      [] p = "acquire_release" -> AcquireReleaseExample

\* the variables of example p whose initial value the article leaves open
OpenLocs(p) ==
    CASE p = "seq_cst" -> {"atomicNumber"}
      [] p = "relaxed" -> {}
      [] p = "acquire_release" -> {"nonAtomicNum", "atomicNum"}

\* the view that has seen the initial values only
Bottom == [l \in Locs |-> 1]

Later(a, b) == IF a >= b THEN a ELSE b

JoinViews(v, w) == [l \in Locs |-> Later(v[l], w[l])]

IsRelease(o) == o \in {memory_order_release, memory_order_seq_cst}

IsAcquire(o) == o \in {memory_order_acquire, memory_order_seq_cst}

\* one example starts: flag holds false (memory-ordering.mdx 89, 109), num
\* holds 0 (108), an int whose initial value is not given holds any value
OrderStart ==
    /\ prog \in Examples
    /\ \E init \in [Locs -> IntValues] :
          /\ \A l \in Locs \ OpenLocs(prog) : init[l] = 0
          /\ mem = [l \in Locs |->
                      << [val |-> IF l = "flag" THEN FALSE ELSE init[l],
                          view |-> Bottom] >>]
    /\ view = [t \in Pair |-> Bottom]
    /\ scLast = Bottom
    /\ ipc = [t \in Pair |-> 1]
    /\ value = 0
    /\ fired = {}

OrderInit ==
    /\ PageIdle
    /\ SpinStart
    /\ CounterStart
    /\ OrderStart

\* thread t has a statement left and no assertion has ended the program
Running(t) ==
    /\ prog \in Examples
    /\ fired = {}
    /\ ipc[t] <= Len(Program(prog)[t])

\* the statement thread t executes next
Instr(t) == Program(prog)[t][ipc[t]]

\* the stores to l a load of order o by thread t may read: none older than
\* the store the thread has seen, and for a seq_cst load none older than
\* the latest seq_cst store to l
Readable(t, l, o) ==
    {k \in 1..Len(mem[l]) :
        /\ k >= view[t][l]
        /\ o = memory_order_seq_cst => k >= scLast[l]}

\* the view of thread t after it has read store k of l with order o
ViewAfterLoad(t, l, o, k) ==
    IF IsAcquire(o)
    THEN JoinViews([view[t] EXCEPT ![l] = k], mem[l][k].view)
    ELSE [view[t] EXCEPT ![l] = k]

\* a store of order o by thread t to l
StoreOp(t, l, v, o) ==
    LET ts == Len(mem[l]) + 1
        cur == [view[t] EXCEPT ![l] = ts]
        carried == IF IsRelease(o) THEN cur ELSE [Bottom EXCEPT ![l] = ts]
    IN  /\ mem' = [mem EXCEPT ![l] = Append(@, [val |-> v, view |-> carried])]
        /\ view' = [view EXCEPT ![t] = cur]
        /\ scLast' = IF o = memory_order_seq_cst
                     THEN [scLast EXCEPT ![l] = ts]
                     ELSE scLast

\* x.store(v, order)
AtomicStore(t) ==
    /\ Running(t)
    /\ Instr(t).op = "store"
    /\ StoreOp(t, Instr(t).loc, Instr(t).val, Instr(t).order)
    /\ ipc' = [ipc EXCEPT ![t] = @ + 1]
    /\ UNCHANGED <<prog, value, fired>>
    /\ UNCHANGED <<pageVars, spinVars, counterVars>>

\* x = v: a plain write carries no view
PlainStore(t) ==
    /\ Running(t)
    /\ Instr(t).op = "write"
    /\ StoreOp(t, Instr(t).loc, Instr(t).val, memory_order_relaxed)
    /\ ipc' = [ipc EXCEPT ![t] = @ + 1]
    /\ UNCHANGED <<prog, value, fired>>
    /\ UNCHANGED <<pageVars, spinVars, counterVars>>

\* one turn of while (!x.load(order)): the loop ends when true is read
SpinLoad(t) ==
    /\ Running(t)
    /\ Instr(t).op = "spin"
    /\ \E k \in Readable(t, Instr(t).loc, Instr(t).order) :
          /\ view' = [view EXCEPT ![t] =
                        ViewAfterLoad(t, Instr(t).loc, Instr(t).order, k)]
          /\ ipc' = IF mem[Instr(t).loc][k].val
                    THEN [ipc EXCEPT ![t] = @ + 1]
                    ELSE ipc
    /\ UNCHANGED <<prog, mem, scLast, value, fired>>
    /\ UNCHANGED <<pageVars, spinVars, counterVars>>

\* int value = x.load(order)
AtomicLoad(t) ==
    /\ Running(t)
    /\ Instr(t).op = "load"
    /\ \E k \in Readable(t, Instr(t).loc, Instr(t).order) :
          /\ view' = [view EXCEPT ![t] =
                        ViewAfterLoad(t, Instr(t).loc, Instr(t).order, k)]
          /\ value' = mem[Instr(t).loc][k].val
    /\ ipc' = [ipc EXCEPT ![t] = @ + 1]
    /\ UNCHANGED <<prog, mem, scLast, fired>>
    /\ UNCHANGED <<pageVars, spinVars, counterVars>>

\* assert(x.load(order) == v): a failed assertion ends the program
AssertAtomic(t) ==
    /\ Running(t)
    /\ Instr(t).op = "assert_load"
    /\ \E k \in Readable(t, Instr(t).loc, Instr(t).order) :
          /\ view' = [view EXCEPT ![t] =
                        ViewAfterLoad(t, Instr(t).loc, Instr(t).order, k)]
          /\ value' = mem[Instr(t).loc][k].val
          /\ IF mem[Instr(t).loc][k].val = Instr(t).val
             THEN ipc' = [ipc EXCEPT ![t] = @ + 1] /\ fired' = fired
             ELSE ipc' = ipc /\ fired' = fired \cup {<<t, ipc[t]>>}
    /\ UNCHANGED <<prog, mem, scLast>>
    /\ UNCHANGED <<pageVars, spinVars, counterVars>>

\* the values a plain read of l by thread t may yield: the last value
\* written when every write to l happens-before the read, and otherwise
\* (a data race, undefined behaviour) any value
PlainValues(t, l) ==
    IF view[t][l] = Len(mem[l])
    THEN {mem[l][Len(mem[l])].val}
    ELSE IntValues

\* assert(x == v) for a plain x
AssertPlain(t) ==
    /\ Running(t)
    /\ Instr(t).op = "assert_read"
    /\ \E v \in PlainValues(t, Instr(t).loc) :
          /\ value' = v
          /\ IF v = Instr(t).val
             THEN ipc' = [ipc EXCEPT ![t] = @ + 1] /\ fired' = fired
             ELSE ipc' = ipc /\ fired' = fired \cup {<<t, ipc[t]>>}
    /\ UNCHANGED <<prog, mem, view, scLast>>
    /\ UNCHANGED <<pageVars, spinVars, counterVars>>

OrderNext ==
    \E t \in Pair :
        \/ AtomicStore(t)
        \/ PlainStore(t)
        \/ SpinLoad(t)
        \/ AtomicLoad(t)
        \/ AssertAtomic(t)
        \/ AssertPlain(t)

SpecOrder == OrderInit /\ [][OrderNext]_vars

(***************************************************************************)
(* Properties of the memory ordering examples.                             *)
(***************************************************************************)
\* the value of the store to l that thread t has seen last
Seen(t, l) == mem[l][view[t][l]].val

\* C21: in the sequentially consistent example the assertion of Thread 2
\* never fails: once Thread 2 has left its loop it has seen the store of 20
\* to atomicNumber, and the value it loads for the assertion is 20.
C21_SeqCstAssertHolds ==
    prog = "seq_cst" =>
        /\ fired = {}
        /\ ipc[2] >= 2 => Seen(2, "atomicNumber") = 20
        /\ ipc[2] = 3 => value = 20

C21_Witness ==
    /\ prog = "seq_cst"
    /\ mem["atomicNumber"][1].val # 20
    /\ ipc[2] = 3
    /\ value = 20
    /\ fired = {}

\* C22: in the acquire/release example neither assertion of Thread 2 ever
\* fails: once Thread 2 has left its loop it has seen the write of 20 to
\* nonAtomicNum and the store of 40 to atomicNum.
C22_AcquireReleaseAssertsHold ==
    prog = "acquire_release" =>
        /\ fired = {}
        /\ ipc[2] >= 2 =>
              /\ Seen(2, "nonAtomicNum") = 20
              /\ Seen(2, "atomicNum") = 40
        /\ ipc[2] = 4 => value = 40

C22_Witness ==
    /\ prog = "acquire_release"
    /\ mem["nonAtomicNum"][1].val # 20
    /\ mem["atomicNum"][1].val # 40
    /\ ipc[2] = 4
    /\ value = 40
    /\ fired = {}

====
